---- MODULE Spec2Model ----
(***************************************************************************)
(* PixStudio (src/main.py): regions drawn on a base image, a library of    *)
(* pattern files, the preview overlay and the run / export compositing.    *)
(*                                                                         *)
(* Four specifications share the variables:                                *)
(*   Spec      the application: the handlers of ImageLabel, PhotoEditorGUI *)
(*             and PatternController, one action per handler;              *)
(*   SpecFit   the contain-fit arithmetic of composite_pattern_images      *)
(*             (lines 544-548), in Python's float arithmetic;              *)
(*   SpecBlend the per-pixel mask arithmetic of composite_pattern_images   *)
(*             (lines 556-561), in OpenCV's uint8 arithmetic;              *)
(*   SpecPaste the paste rectangle of composite_pattern_images             *)
(*             (lines 525-526 and 553-554), in Qt's and Python's integers. *)
(***************************************************************************)
EXTENDS Integers, Sequences, FiniteSets, TLC

VARIABLES
    rects,            \* ImageLabel.rects: list of QRect, as [x, y, w, h]
    sidebar,          \* PatternController widgets in sidebar_layout, in order
    doomed,           \* controllers taken out of the layout, deleteLater() pending
    issued,           \* the ids given to a PatternController so far
    edits,            \* number of spin box edits so far (bounded by MaxEdits)
    pattern_files,    \* PhotoEditorGUI.pattern_files
    image_file,       \* ImageLabel.image_file
    original_image,   \* ImageLabel.original_image (QImage)
    image,            \* ImageLabel.image (QImage)
    image_copy,       \* ImageLabel.image_copy (QImage)
    pixmap,           \* what the label displays (QLabel.setPixmap)
    run_active,       \* run_button.active
    export_active,    \* export_button.active
    event,            \* the handler that ran last and how it ended
    probe             \* input / output of the arithmetic under SpecFit and SpecBlend

vars == <<rects, sidebar, doomed, issued, edits, pattern_files, image_file,
          original_image, image, image_copy, pixmap, run_active,
          export_active, event, probe>>

appVars == <<rects, sidebar, doomed, issued, edits, pattern_files, image_file,
             original_image, image, image_copy, pixmap, run_active,
             export_active, event>>

----------------------------------------------------------------------------
(* Bounds of the model.                                                    *)

MaxRects == 2        \* regions drawn on one base image
MaxEdits == 1        \* spin box edits in one run
MaxPatterns == 2     \* length of pattern_files
MaxSpin == 2         \* spin box values tried: 0 .. MaxSpin
MaxDim == 9          \* region and pattern sizes tried under SpecFit
CanvasW == 4         \* width of the base image, pixels
CanvasH == 3         \* height of the base image, pixels
MaxPaste == 4        \* region and resized pattern sizes tried under SpecPaste

----------------------------------------------------------------------------
(* Natural numbers of any size, as little-endian digit sequences in base   *)
(* LimbBase, so that a 53-bit significand fits TLC's 32-bit integers.      *)

RECURSIVE Pow2(_)
Pow2(n) == IF n = 0 THEN 1 ELSE 2 * Pow2(n - 1)

LimbBase == Pow2(13)

Limb(n, i) == IF i \in DOMAIN n THEN n[i] ELSE 0

RECURSIVE BigFromCarry(_)
BigFromCarry(c) ==
    IF c = 0 THEN <<>> ELSE <<c % LimbBase>> \o BigFromCarry(c \div LimbBase)

BigFromInt(k) == BigFromCarry(k)

RECURSIVE BigMulCarry(_, _, _, _)
BigMulCarry(n, k, i, carry) ==
    IF i > Len(n) THEN BigFromCarry(carry)
    ELSE LET t == n[i] * k + carry
         IN  <<t % LimbBase>> \o BigMulCarry(n, k, i + 1, t \div LimbBase)

\* n * k for a small k (k < 2^17)
BigMulSmall(n, k) == BigMulCarry(n, k, 1, 0)

RECURSIVE BigAddCarry(_, _, _, _)
BigAddCarry(a, b, i, carry) ==
    IF i > Len(a) /\ i > Len(b) THEN BigFromCarry(carry)
    ELSE LET t == Limb(a, i) + Limb(b, i) + carry
         IN  <<t % LimbBase>> \o BigAddCarry(a, b, i + 1, t \div LimbBase)

BigAdd(a, b) == BigAddCarry(a, b, 1, 0)

RECURSIVE BigLeqFrom(_, _, _)
BigLeqFrom(a, b, i) ==
    IF i = 0 THEN TRUE
    ELSE IF Limb(a, i) < Limb(b, i) THEN TRUE
    ELSE IF Limb(a, i) > Limb(b, i) THEN FALSE
    ELSE BigLeqFrom(a, b, i - 1)

\* a <= b
BigLeq(a, b) == BigLeqFrom(a, b, IF Len(a) > Len(b) THEN Len(a) ELSE Len(b))

RECURSIVE BigShl(_, _)
\* n * 2^bits
BigShl(n, bits) ==
    IF bits = 0 THEN n
    ELSE IF bits >= 13 THEN BigShl(<<0>> \o n, bits - 13)
    ELSE BigMulSmall(n, Pow2(bits))

----------------------------------------------------------------------------
(* Python floats (IEEE 754 binary64) that arise as quotients of positive   *)
(* integers: [m, e] stands for m * 2^(e - 52) with 2^52 <= m < 2^53.       *)

RECURSIVE ExpUp(_, _, _)
ExpUp(a, b, e) == IF a >= 2 * b * Pow2(e) THEN ExpUp(a, b, e + 1) ELSE e

RECURSIVE ExpDown(_, _, _)
ExpDown(a, b, k) == IF a * Pow2(k) < b THEN ExpDown(a, b, k + 1) ELSE k

\* e with 2^e <= a / b < 2^(e+1)
QuotExp(a, b) == IF a >= b THEN ExpUp(a, b, 0) ELSE 0 - ExpDown(a, b, 1)

RECURSIVE FracDigits(_, _, _)
\* the next n base-LimbBase digits of r / b (r < b), most significant
\* first, followed by the remainder
FracDigits(r, b, n) ==
    IF n = 0 THEN <<r>>
    ELSE <<(r * LimbBase) \div b>> \o FracDigits((r * LimbBase) % b, b, n - 1)

\* a / b for Python ints a, b > 0: the correctly rounded (nearest, ties to
\* even) binary64 quotient
PyTrueDiv(a, b) ==
    LET e  == QuotExp(a, b)
        ap == IF e >= 0 THEN a ELSE a * Pow2(0 - e)
        bp == IF e >= 0 THEN b * Pow2(e) ELSE b
        ds == FracDigits(ap - bp, bp, 4)
        m0 == <<ds[4], ds[3], ds[2], ds[1], 1>>
        r  == ds[5]
        roundBit == (2 * r) \div bp
        sticky   == ((2 * r) % bp) # 0
        up == roundBit = 1 /\ (sticky \/ ds[4] % 2 = 1)
        m1 == IF up THEN BigAdd(m0, <<1>>) ELSE m0
    IN  IF Limb(m1, 5) = 2
        THEN [m |-> <<0, 0, 0, 0, 1>>, e |-> e + 1]
        ELSE [m |-> m1, e |-> e]

\* d1 >= d2 on floats
FloatGeq(d1, d2) ==
    IF d1.e # d2.e THEN d1.e > d2.e ELSE BigLeq(d2.m, d1.m)

\* Python's max(d1, d2): the first argument unless the second is greater
PyMax(d1, d2) == IF FloatGeq(d1, d2) THEN d1 ELSE d2

RECURSIVE FloorQuot(_, _, _)
\* the greatest k >= k0 with k * m <= n
FloorQuot(n, m, k) ==
    IF BigLeq(BigMulSmall(m, k + 1), n) THEN FloorQuot(n, m, k + 1) ELSE k

RECURSIVE FloorLog2(_)
FloorLog2(n) == IF n < 2 THEN 0 ELSE 1 + FloorLog2(n \div 2)

\* exponent of the greatest float below the integer n >= 1
PredExp(n) == IF Pow2(FloorLog2(n)) = n THEN FloorLog2(n) - 1 ELSE FloorLog2(n)

\* int(p / d) for a Python int p > 0 and a float d = m * 2^(e-52), e <= 52:
\* the quotient is rounded to the nearest float and then truncated.  With
\* k = floor(p / d) exactly, the rounded quotient reaches k + 1 exactly when
\* p / d >= (k + 1) - 2^(PredExp(k + 1) - 53).
PyIntOfDiv(p, d) ==
    LET n  == BigShl(BigFromInt(p), 52 - d.e)
        k  == FloorQuot(n, d.m, 0)
        sh == 53 - PredExp(k + 1)
    IN  IF BigLeq(BigShl(BigMulSmall(d.m, k + 1), sh),
                  BigAdd(BigShl(n, sh), d.m))
        THEN k + 1 ELSE k

\* lines 544-548: ph, pw = pattern size; height, width = region size
\*   ratio = max(ph / height, pw / width)
\*   new_h = int(ph / ratio); new_w = int(pw / ratio)
FitSize(pw, ph, width, height) ==
    LET ratio == PyMax(PyTrueDiv(ph, height), PyTrueDiv(pw, width))
    IN  [new_w |-> PyIntOfDiv(pw, ratio), new_h |-> PyIntOfDiv(ph, ratio)]

----------------------------------------------------------------------------
(* Files, images and rectangles.                                           *)

NoFile == "none"                       \* image_file = None

BaseFiles == {"page.jpg"}              \* what the open dialog can return

\* cv2.imread(pattern_file, cv2.IMREAD_UNCHANGED): channel count and size of
\* the decoded array (ndim == 2 is one channel)
PatternShape ==
    [f \in {"gray.png", "duo.tif", "rgba.png"} |->
        CASE f = "gray.png" -> [channels |-> 1, pw |-> 1, ph |-> 1]
          [] f = "duo.tif"  -> [channels |-> 2, pw |-> 1, ph |-> 1]
          [] f = "rgba.png" -> [channels |-> 4, pw |-> 2, ph |-> 1]]

PatternFiles == DOMAIN PatternShape

\* An image is the file its pixels were decoded from, the placeholders
\* painted on it (marks) and the patterns pasted into it (pastes), in order.
NullImage == [src |-> "null", marks |-> <<>>, pastes |-> <<>>]     \* QImage()

LoadImage(f) == [src |-> f, marks |-> <<>>, pastes |-> <<>>]       \* QImage(f), cv2.imread(f)

QRect(x, y, w, h) == [x |-> x, y |-> y, w |-> w, h |-> h]

IsValid_NonNegative(r) == r.w >= 0 /\ r.h >= 0

\* QRect.isValid(): left <= right and top <= bottom
IsValid(r) == r.w >= 1 /\ r.h >= 1

\* C++ integer division by two (truncates towards zero)
TruncHalf(n) == IF n >= 0 THEN n \div 2 ELSE 0 - ((0 - n) \div 2)

\* QRect.center(): ((left + right) / 2, (top + bottom) / 2), with
\* right = left + width - 1 and bottom = top + height - 1
Center(r) == [x |-> TruncHalf(r.x + (r.x + r.w - 1)),
              y |-> TruncHalf(r.y + (r.y + r.h - 1))]

\* rubber_band.geometry() at the release of the mouse button: the rectangles
\* tried.  The press is inside the label, the drag may leave it.
RubberGeoms ==
    { QRect(0, 0, 1, 1), QRect(0 - 3, 0, 1, 1), QRect(3, 0, 3, 1),
      QRect(1, 0, 0, 1), QRect(1, 1, 1, 0) }

SpinValues == 0 .. MaxSpin             \* QSpinBox.setRange(0, 1e6), bounded

Fields == {"x", "y", "w", "h"}

----------------------------------------------------------------------------
(* Placeholder drawing (ImageLabel.draw_placeholder, redraw_placeholders).  *)
(* The QImage objects of a handler are a store: the three attributes of the *)
(* label and the temporary made by self.image.copy().  QPainter paints on   *)
(* the object it is given.                                                  *)

Store == [original_image |-> original_image, image |-> image,
          image_copy |-> image_copy, scratch |-> NullImage]

\* the outline, the two diagonals and the text str(id) painted for one rect
Mark(rect, id) == [x |-> rect.x, y |-> rect.y, w |-> rect.w, h |-> rect.h,
                   label |-> id]

draw_placeholder(store, target, rect, id) ==
    [store EXCEPT ![target].marks = Append(@, Mark(rect, id))]

RECURSIVE RedrawFrom(_, _, _, _)
RedrawFrom(store, target, rs, i) ==
    IF i >= Len(rs) THEN store
    ELSE RedrawFrom(draw_placeholder(store, target, rs[i + 1], i + 1),
                    target, rs, i + 1)

\* for i, rect in enumerate(rects): draw_placeholder(image, rect, i + 1)
redraw_placeholders(store, target, rs) == RedrawFrom(store, target, rs, 0)

----------------------------------------------------------------------------
(* Compositing (PhotoEditorGUI.composite_pattern_images).                   *)

HasPatterns_Always == TRUE

\* len(self.pattern_files) as a truth value
HasPatterns == Len(pattern_files) # 0

\* random.choice(self.pattern_files), as an index; 0 when the list is empty
\* (random.choice then raises IndexError)
PickSet == IF Len(pattern_files) = 0 THEN {0} ELSE 1 .. Len(pattern_files)

Picks == [1 .. Len(rects) -> PickSet]

\* Python's n // 2
FloorHalf(n) == IF n >= 0 THEN n \div 2 ELSE 0 - ((1 - n) \div 2)

\* numpy's a[lo:hi] on an axis of length n: a negative bound counts from the
\* end, both bounds are then clipped to 0 .. n
SliceBound(i, n) ==
    IF i < 0 THEN (IF i + n < 0 THEN 0 ELSE i + n)
    ELSE (IF i > n THEN n ELSE i)

NumpySlice(lo, hi, n) ==
    LET start == SliceBound(lo, n)
        stop  == SliceBound(hi, n)
    IN  [start |-> start, len |-> IF stop > start THEN stop - start ELSE 0]

\* lines 553-554: the paste rectangle of a region for a resized pattern
PasteRect(rect, new_w, new_h) ==
    LET c == Center(rect)
    IN  [x1 |-> c.x - FloorHalf(new_w), y1 |-> c.y - FloorHalf(new_h),
         x2 |-> c.x - FloorHalf(new_w) + new_w,
         y2 |-> c.y - FloorHalf(new_h) + new_h]

\* the greatest width or height a stored region can have
MaxSide ==
    LET sides == SpinValues \cup {g.w : g \in RubberGeoms}
                            \cup {g.h : g \in RubberGeoms}
    IN  CHOOSE m \in sides : \A k \in sides : k <= m

\* FitSize for every pattern file and region size of the model, evaluated
\* once
FitOf ==
    [f \in PatternFiles, w \in 1 .. MaxSide, h \in 1 .. MaxSide |->
        FitSize(PatternShape[f].pw, PatternShape[f].ph, w, h)]

Raise(cause, img) == [status |-> "raise", cause |-> cause, img |-> img]

\* lines 550-563 for the size fit of the resized pattern: the crop, the mask
\* operations and the write-back
PastePattern(img, rect, file, channels, fit) ==
    IF fit.new_w = 0 \/ fit.new_h = 0
    THEN Raise("EmptyResize", img)                         \* cv2.resize
    ELSE
    LET pr == PasteRect(rect, fit.new_w, fit.new_h)
        sx == NumpySlice(pr.x1, pr.x2, CanvasW)
        sy == NumpySlice(pr.y1, pr.y2, CanvasH)
    IN  IF sx.len # fit.new_w \/ sy.len # fit.new_h
        THEN Raise("MaskSizeMismatch", img)                \* cv2.bitwise_and
        ELSE [status |-> "image", cause |-> "none",
              img |-> [img EXCEPT !.pastes = Append(@,
                         [x1 |-> pr.x1, y1 |-> pr.y1,
                          col |-> sx.start, row |-> sy.start,
                          w |-> fit.new_w, h |-> fit.new_h,
                          file |-> file,
                          mask |-> IF channels = 4 THEN "alpha"
                                                   ELSE "opaque"])]]

\* one iteration of the loop of lines 524-563 on the array img
CompositeRect(img, rect, pick) ==
    IF pick = 0 THEN Raise("IndexError", img)
    ELSE
    LET file  == pattern_files[pick]
        shape == PatternShape[file]
        \* 532-533: a 2-d array becomes 3 channels
        channels == IF shape.channels = 1 THEN 3 ELSE shape.channels
    IN  IF channels \notin {3, 4}
        THEN [status |-> "none", cause |-> "UnsupportedPixelFormat", img |-> img]
        ELSE IF rect.h = 0 \/ rect.w = 0
        THEN Raise("ZeroDivisionError", img)
        ELSE PastePattern(img, rect, file, channels,
                          FitOf[file, rect.w, rect.h])

RECURSIVE CompositeLoop(_, _, _)

\* the loop goes on with the array of the iteration r, or stops with it
CompositeRest(r, i, picks) ==
    IF r.status = "image" THEN CompositeLoop(r.img, i + 1, picks) ELSE r

CompositeLoop(img, i, picks) ==
    IF i > Len(rects) THEN [status |-> "image", cause |-> "none", img |-> img]
    ELSE CompositeRest(CompositeRect(img, rects[i], picks[i]), i, picks)

CompositeBase_Displayed == pixmap

\* the array the loop starts from: cv2.imread(self.image_label.image_file)
CompositeBase == LoadImage(image_file)

\* status "image": the array returned; "none": returned None; "raise": an
\* exception left the method
composite_pattern_images(picks) ==
    IF HasPatterns THEN CompositeLoop(CompositeBase, 1, picks)
    ELSE [status |-> "none", cause |-> "NoPatterns", img |-> NullImage]

----------------------------------------------------------------------------
(* The handlers.  event records the handler that ran last: outcome is       *)
(*   "ok"       it ran to its end (export: the success box),               *)
(*   "warning"  QMessageBox.warning, no pattern images,                    *)
(*   "failure"  QMessageBox.information 'That bai', the reported failure,  *)
(*   "crash"    an exception left the handler unhandled;                   *)
(* cause is why compositing stopped, io the files read and written, result *)
(* the array compositing returned, choice what random.choice returned for  *)
(* each region.                                                            *)

NoArg == [id |-> 0 - 1, field |-> "none", value |-> 0 - 1]

Ev(op, outcome) ==
    [op |-> op, outcome |-> outcome, cause |-> "none", io |-> {},
     result |-> NullImage, arg |-> NoArg, choice |-> <<>>]

Idle == [kind |-> "idle"]

InitApp ==
    /\ rects = <<>>
    /\ sidebar = <<>>
    /\ doomed = {}
    /\ issued = {}
    /\ edits = 0
    /\ pattern_files = <<>>
    /\ image_file = NoFile
    /\ original_image = NullImage
    /\ image = NullImage
    /\ image_copy = NullImage
    /\ pixmap = NullImage
    /\ run_active = FALSE
    /\ export_active = FALSE
    /\ event = Ev("init", "ok")

Init == InitApp /\ probe = Idle

\* Objects given to deleteLater() are deleted when control returns to the
\* event loop, before the loop dispatches the next mouse or key event: a
\* button, the label or a dialog is used only when none is pending.  A signal
\* of a pending controller can still arrive (SpinEdit below).
InputReady == doomed = {}

\* ImageLabel.openImage, the dialog returned the file f
openImage(f) ==
    /\ InputReady
    \* clear(): rects = [], the controllers leave the layout and are
    \* scheduled for deletion; image, image_copy and the pixmap it sets are
    \* assigned again below
    /\ rects' = <<>>
    /\ doomed' = doomed \cup {sidebar[i].id : i \in DOMAIN sidebar}
    /\ sidebar' = <<>>
    /\ image_file' = f
    /\ original_image' = LoadImage(f)
    /\ image' = LoadImage(f)
    /\ image_copy' = LoadImage(f)
    /\ pixmap' = LoadImage(f)
    /\ event' = Ev("open", "ok")
    /\ UNCHANGED <<issued, edits, pattern_files, run_active, export_active, probe>>

\* ImageLabel.openImage, the dialog was cancelled (image_file == '')
openImageCancel ==
    /\ InputReady
    /\ event' = Ev("open_cancel", "ok")
    /\ UNCHANGED <<rects, sidebar, doomed, issued, edits, pattern_files, image_file,
                   original_image, image, image_copy, pixmap, run_active,
                   export_active, probe>>

\* the event loop deletes the objects of deleteLater()
DeferredDelete ==
    /\ doomed # {}
    /\ doomed' = {}
    /\ event' = Ev("deferred_delete", "ok")
    /\ UNCHANGED <<rects, sidebar, issued, edits, pattern_files, image_file,
                   original_image, image, image_copy, pixmap, run_active,
                   export_active, probe>>

\* PhotoEditorGUI.upload_pattern_images, the dialog returned the list fs
upload_pattern_images(fs) ==
    /\ InputReady
    /\ Len(pattern_files) + Len(fs) <= MaxPatterns
    /\ IF Len(fs) # 0 THEN pattern_files' = pattern_files \o fs
                      ELSE pattern_files' = pattern_files
    /\ event' = Ev("upload_patterns", "ok")
    /\ UNCHANGED <<rects, sidebar, doomed, issued, edits, image_file, original_image,
                   image, image_copy, pixmap, run_active, export_active, probe>>

\* QSpinBox.setValue on a box of range 0 .. 1e6
SpinMax == 1000000

SpinClamp(v) == IF v < 0 THEN 0 ELSE IF v > SpinMax THEN SpinMax ELSE v

\* PatternController(id=id, rect=rect): the id and the values of its boxes
PatternController(id, rect) ==
    [id |-> id, x |-> SpinClamp(rect.x), y |-> SpinClamp(rect.y),
     w |-> SpinClamp(rect.w), h |-> SpinClamp(rect.h)]

NewId_After == Len(rects) + 1

\* the id of line 220: the length of the list before the append
NewId == Len(rects)

\* ImageLabel.mouseReleaseEvent, left button, rubber band geometry g.  The
\* label has the size of its pixmap, so it gets mouse events only once an
\* image is open.
mouseReleaseEvent(g) ==
    /\ InputReady
    /\ image_file # NoFile
    /\ IF IsValid(g)
       THEN /\ Len(rects) < MaxRects
            /\ LET id == NewId
                   s1 == draw_placeholder(Store, "image_copy", g, id)
               IN  /\ rects' = Append(rects, g)
                   /\ original_image' = s1.original_image
                   /\ image' = s1.image
                   /\ image_copy' = s1.image_copy
                   /\ pixmap' = s1.image_copy
                   /\ sidebar' = Append(sidebar,
                                   PatternController(id, g))
                   /\ issued' = issued \cup {id}
       ELSE UNCHANGED <<rects, original_image, image, image_copy, pixmap,
                        sidebar, issued>>
    /\ IF rects' # <<>>
       THEN run_active' = TRUE /\ export_active' = TRUE
       ELSE UNCHANGED <<run_active, export_active>>
    /\ event' = Ev(IF IsValid(g) THEN "release" ELSE "release_rejected", "ok")
    /\ UNCHANGED <<doomed, edits, pattern_files, image_file, probe>>

SetField_Square(rect, field, value) ==
    CASE field = "x" -> QRect(value, rect.y, rect.w, rect.h)
      [] field = "y" -> QRect(rect.x, value, rect.w, rect.h)
      [] field = "w" -> QRect(rect.x, rect.y, value, rect.h)
      [] field = "h" -> QRect(rect.x, rect.y, value, value)

\* the QRect built by the four on_placeholder_*_change handlers
SetField(rect, field, value) ==
    CASE field = "x" -> QRect(value, rect.y, rect.w, rect.h)
      [] field = "y" -> QRect(rect.x, value, rect.w, rect.h)
      [] field = "w" -> QRect(rect.x, rect.y, value, rect.h)
      [] field = "h" -> QRect(rect.x, rect.y, rect.w, value)

\* self.rects after lines 241-245 (x), 251-255, 261-265, 271-275
UpdatedRects(id, field, value) ==
    IF id < Len(rects)
    THEN [rects EXCEPT ![id + 1] = SetField(rects[id + 1], field, value)]
    ELSE rects

RedrawTarget_Image == "image"

\* the image the redraw paints on: self.image.copy()
RedrawTarget == "scratch"

\* ImageLabel.on_placeholder_<field>_change((id, value))
on_placeholder_change(id, field, value) ==
    LET s1 == [Store EXCEPT !["scratch"] = Store["image"]]
        s2 == redraw_placeholders(s1, RedrawTarget, UpdatedRects(id, field, value))
    IN  /\ rects' = UpdatedRects(id, field, value)
        /\ original_image' = s2.original_image
        /\ image' = s2.image
        /\ image_copy' = s2.image_copy
        /\ pixmap' = s2[RedrawTarget]
        /\ event' = [Ev("update", "ok") EXCEPT
                       !.arg = [id |-> id, field |-> field, value |-> value]]
        /\ UNCHANGED <<doomed, issued, pattern_files, image_file, run_active,
                       export_active, probe>>

\* a spin box of a controller changes its value: valueChanged, then the
\* controller's signal (PatternController.on_*_changed) with (self.id, value).
\* A live controller is in the sidebar; one whose deleteLater() is pending
\* still exists and its signal is still connected.
SpinEdit(field) ==
    /\ edits < MaxEdits
    /\ edits' = edits + 1
    /\ \/ \E i \in DOMAIN sidebar : \E v \in SpinValues :
            /\ v # sidebar[i][field]
            /\ sidebar' = [sidebar EXCEPT ![i][field] = v]
            /\ on_placeholder_change(sidebar[i].id, field, v)
       \/ \E id \in doomed : \E v \in SpinValues :
            /\ sidebar' = sidebar
            /\ on_placeholder_change(id, field, v)

on_placeholder_x_change == SpinEdit("x")

on_placeholder_y_change == SpinEdit("y")

on_placeholder_width_change == SpinEdit("w")

on_placeholder_height_change == SpinEdit("h")

\* PhotoEditorGUI.run, the run button is active
run ==
    /\ InputReady
    /\ run_active
    /\ \E picks \in Picks :
         IF HasPatterns
         THEN \E c \in {composite_pattern_images(picks)} :
                  IF c.status = "image"
                  THEN /\ pixmap' = c.img
                       /\ event' = [Ev("run", "ok") EXCEPT
                                      !.io = {"imread"}, !.result = c.img,
                                      !.choice = picks]
                  ELSE \* "none": image.shape raises AttributeError
                       /\ pixmap' = pixmap
                       /\ event' = [Ev("run", "crash") EXCEPT
                                      !.io = {"imread"}, !.cause = c.cause,
                                      !.choice = picks]
         ELSE /\ pixmap' = pixmap
              /\ event' = Ev("run", "warning")
    /\ UNCHANGED <<rects, sidebar, doomed, issued, edits, pattern_files, image_file,
                   original_image, image, image_copy, run_active,
                   export_active, probe>>

\* PhotoEditorGUI.export, the export button is active
export ==
    /\ InputReady
    /\ export_active
    /\ \E picks \in Picks :
         IF HasPatterns
         THEN \E c \in {composite_pattern_images(picks)} :
                  CASE c.status = "image" ->
                         event' = [Ev("export", "ok") EXCEPT
                                     !.io = {"imread", "imwrite"},
                                     !.result = c.img,
                                     !.choice = picks]
                    [] c.status = "none" ->
                         event' = [Ev("export", "failure") EXCEPT
                                     !.io = {"imread"}, !.cause = c.cause,
                                     !.choice = picks]
                    [] c.status = "raise" ->
                         event' = [Ev("export", "crash") EXCEPT
                                     !.io = {"imread"}, !.cause = c.cause,
                                     !.choice = picks]
         ELSE event' = Ev("export", "warning")
    /\ UNCHANGED <<rects, sidebar, doomed, issued, edits, pattern_files, image_file,
                   original_image, image, image_copy, pixmap, run_active,
                   export_active, probe>>

\* the lists the pattern dialog can return, [] when cancelled
UploadLists ==
    {<<>>} \cup {<<f>> : f \in PatternFiles}
           \cup {<<f, g>> : f \in PatternFiles, g \in PatternFiles}

Next ==
    \/ \E f \in BaseFiles : openImage(f)
    \/ openImageCancel
    \/ DeferredDelete
    \/ \E fs \in UploadLists : upload_pattern_images(fs)
    \/ \E g \in RubberGeoms : mouseReleaseEvent(g)
    \/ on_placeholder_x_change
    \/ on_placeholder_y_change
    \/ on_placeholder_width_change
    \/ on_placeholder_height_change
    \/ run
    \/ export

Spec == Init /\ [][Next]_vars

----------------------------------------------------------------------------
(* SpecFit: the contain-fit of lines 544-548 on every region size and       *)
(* pattern size up to MaxDim.                                               *)

FitInputs ==
    [kind : {"fit_in"}, w : 1 .. MaxDim, h : 1 .. MaxDim,
     pw : 1 .. MaxDim, ph : 1 .. MaxDim]

InitFit == InitApp /\ probe \in FitInputs

FitStep ==
    /\ probe.kind = "fit_in"
    /\ LET fit == FitSize(probe.pw, probe.ph, probe.w, probe.h)
       IN  probe' = [kind |-> "fit_out", w |-> probe.w, h |-> probe.h,
                     pw |-> probe.pw, ph |-> probe.ph,
                     new_w |-> fit.new_w, new_h |-> fit.new_h]
    /\ UNCHANGED appVars

SpecFit == InitFit /\ [][FitStep]_vars

----------------------------------------------------------------------------
(* SpecBlend: lines 556-561 on one pixel of the paste rectangle.  base is   *)
(* the pixel of the crop, pat the pixel of the resized pattern, a the byte  *)
(* of the resized mask; pixels are (b, g, r) bytes.                         *)

UInt8Max == 255

RECURSIVE BitAnd(_, _)
BitAnd(a, b) ==
    IF a = 0 \/ b = 0 THEN 0
    ELSE (a % 2) * (b % 2) + 2 * BitAnd(a \div 2, b \div 2)

\* cv2.bitwise_not on a uint8
bitwise_not(a) == UInt8Max - a

\* cv2.bitwise_and(src1, src2, mask=m) on one pixel: the AND where the mask
\* byte is not zero, 0 in the freshly allocated destination elsewhere
bitwise_and(p1, p2, m) ==
    [c \in 1 .. 3 |-> IF m # 0 THEN BitAnd(p1[c], p2[c]) ELSE 0]

\* cv2.add on uint8: saturating
add(p1, p2) ==
    [c \in 1 .. 3 |-> IF p1[c] + p2[c] > UInt8Max THEN UInt8Max
                      ELSE p1[c] + p2[c]]

\* lines 556-561
BlendPixel(base, pat, a) ==
    LET inv_mask      == bitwise_not(a)
        cropped_image == bitwise_and(base, base, inv_mask)
        resized_image == bitwise_and(pat, pat, a)
    IN  add(cropped_image, resized_image)

PixelSamples ==
    { <<0, 0, 0>>, <<255, 255, 255>>, <<100, 50, 200>>, <<30, 160, 90>> }

BlendInputs ==
    [kind : {"blend_in"}, base : PixelSamples, pat : PixelSamples,
     a : 0 .. UInt8Max]

InitBlend == InitApp /\ probe \in BlendInputs

BlendStep ==
    /\ probe.kind = "blend_in"
    /\ probe' = [kind |-> "blend_out", base |-> probe.base, pat |-> probe.pat,
                 a |-> probe.a,
                 out |-> BlendPixel(probe.base, probe.pat, probe.a)]
    /\ UNCHANGED appVars

SpecBlend == InitBlend /\ [][BlendStep]_vars

----------------------------------------------------------------------------
(* SpecPaste: lines 525-526 and 553-554 on one region and one size of the   *)
(* resized pattern, which fits the region (new_w <= W, new_h <= H).         *)

\* the region and the resized pattern of the 200 x 100 pattern scenario
ScenarioRect == QRect(100, 100, 50, 50)

PasteInputs ==
    [kind : {"paste_in"}, rect : {ScenarioRect}, new_w : {50}, new_h : {25}]
    \cup
    { [kind |-> "paste_in", rect |-> QRect(x, y, w, h),
       new_w |-> nw, new_h |-> nh] :
         x \in 0 .. 1, y \in 0 .. 1, w \in 1 .. MaxPaste, h \in 1 .. MaxPaste,
         nw \in 1 .. MaxPaste, nh \in 1 .. MaxPaste }

InitPaste ==
    /\ InitApp
    /\ probe \in PasteInputs
    /\ probe.new_w <= probe.rect.w
    /\ probe.new_h <= probe.rect.h

PasteStep ==
    /\ probe.kind = "paste_in"
    /\ \E pr \in {PasteRect(probe.rect, probe.new_w, probe.new_h)} :
         probe' = [kind |-> "paste_out", rect |-> probe.rect,
                   new_w |-> probe.new_w, new_h |-> probe.new_h,
                   x1 |-> pr.x1, y1 |-> pr.y1, x2 |-> pr.x2, y2 |-> pr.y2]
    /\ UNCHANGED appVars

SpecPaste == InitPaste /\ [][PasteStep]_vars

----------------------------------------------------------------------------
(* Properties.                                                              *)

\* C1 (as stated; fails on the code): for every pixel of the paste rectangle
\* and every byte a of the resized mask, the output pixel is the pattern's
\* pixel when a > 0 and the base pixel when a = 0.
C1_MaskBinarized ==
    probe.kind = "blend_out" =>
        /\ (probe.a > 0 => probe.out = probe.pat)
        /\ (probe.a = 0 => probe.out = probe.base)

\* C2: with an empty pattern_files, run and export end in the warning and
\* read no file, write no file, composite nothing and leave the regions, the
\* three image buffers and the displayed pixmap as they were.
C2_EmptyLibraryFails ==
    [][ (pattern_files = <<>> /\ event'.op \in {"run", "export"}) =>
          /\ event'.outcome = "warning"
          /\ event'.io = {}
          /\ event'.result = NullImage
          /\ UNCHANGED <<rects, original_image, image, image_copy, pixmap>>
      ]_vars

C2_Witness ==
    /\ event.op = "export"
    /\ event.outcome = "warning"
    /\ pattern_files = <<>>
    /\ Len(rects) = 2

\* C3: a field update (id, field, value) replaces exactly that field of
\* region id when id < len(rects) and changes no region otherwise; the number
\* and order of the regions stay.
C3_UpdateFieldFrame ==
    [][ event'.op = "update" =>
          LET a == event'.arg
          IN  /\ Len(rects') = Len(rects)
              /\ IF a.id < Len(rects)
                 THEN /\ rects'[a.id + 1][a.field] = a.value
                      /\ \A f \in Fields \ {a.field} :
                            rects'[a.id + 1][f] = rects[a.id + 1][f]
                      /\ \A j \in DOMAIN rects :
                            j # a.id + 1 => rects'[j] = rects[j]
                 ELSE rects' = rects
      ]_vars

C3_Witness ==
    /\ event.op = "update"
    /\ Len(rects) = 2
    /\ event.arg.id = 0
    /\ event.arg.field = "w"
    /\ rects[1].w = event.arg.value
    /\ rects[1].w # rects[2].w

\* the out-of-range branch of the handlers is reached as well
C3_StaleUpdateReached ==
    /\ event.op = "update"
    /\ event.arg.id >= Len(rects)

\* C4 (as stated; fails on the code): every new controller gets an id that no
\* controller had before, and the id of every controller is the position of
\* its region.
C4_IdNeverReused ==
    [][ \A i \in DOMAIN sidebar' :
          /\ sidebar'[i].id = i - 1
          /\ i \notin DOMAIN sidebar => sidebar'[i].id \notin issued
      ]_vars

\* C4 (amended): the controllers in the sidebar are as many as the regions,
\* the id of each is the position of its region in creation order since the
\* base image was opened (so the ids are pairwise distinct), and a handler
\* other than openImage keeps every controller and its id.
C4_IdsArePositions ==
    [][ /\ Len(sidebar') = Len(rects')
        /\ \A i \in DOMAIN sidebar' : sidebar'[i].id = i - 1
        /\ event'.op # "open" =>
              \A i \in DOMAIN sidebar :
                 i \in DOMAIN sidebar' /\ sidebar'[i].id = sidebar[i].id
      ]_vars

C4_Witness ==
    /\ event.op = "release"
    /\ Len(sidebar) = 2
    /\ issued = {0, 1}
    /\ edits > 0

RECURSIVE OverlayMarks(_, _)
\* one overlay per region, at its current geometry, labelled id + 1
OverlayMarks(rs, i) ==
    IF i > Len(rs) THEN <<>>
    ELSE <<Mark(rs[i], (i - 1) + 1)>> \o OverlayMarks(rs, i + 1)

\* C5 (as stated; fails on the code): after a region creation and after a
\* field update the displayed preview is the clean base image with exactly
\* one overlay per stored region, at the region's current geometry and with
\* the label id + 1.
C5_PreviewOfCurrentRegions ==
    event.op \in {"release", "update"} =>
        pixmap = [src |-> image.src, marks |-> OverlayMarks(rects, 1),
                  pastes |-> <<>>]

\* C6: region creations, field updates, run and export leave original_image
\* and image as they were, both hold the pixels of the opened file with no
\* overlay, and what run displays or export writes is that file with the
\* pastes and no placeholder.
C6_BasePixelsUntouched ==
    [][ event'.op \in {"release", "release_rejected", "update", "run", "export"} =>
          /\ original_image' = original_image
          /\ image' = image
          /\ image' = LoadImage(image_file)
          /\ original_image' = LoadImage(image_file)
          /\ event'.outcome = "ok" /\ event'.op \in {"run", "export"} =>
                /\ event'.result.src = image_file
                /\ event'.result.marks = <<>>
                /\ event'.op = "run" => pixmap' = event'.result
      ]_vars

C6_Witness ==
    /\ event.op = "run"
    /\ event.outcome = "ok"
    /\ Len(event.result.pastes) = 2
    /\ Len(image_copy.marks) = 2
    /\ edits > 0

\* C7 (as stated; fails on the code): when compositing stops on a region
\* whose pattern has a channel count other than 1, 3 or 4, run and export both
\* end in the reported failure and write no file.
C7_FailureIsReported ==
    (event.op \in {"run", "export"} /\ event.cause = "UnsupportedPixelFormat") =>
        /\ event.outcome = "failure"
        /\ "imwrite" \notin event.io

InCanvas(p) ==
    /\ 0 <= p.x1 /\ p.x1 + p.w <= CanvasW
    /\ 0 <= p.y1 /\ p.y1 + p.h <= CanvasH
    /\ p.col = p.x1 /\ p.row = p.y1

\* C8 (as stated; fails on the code): a paste rectangle that is not inside
\* the canvas ends in the reported failure; run and export never fail
\* unhandled on it and never paste a pattern anywhere but at a rectangle
\* inside the canvas.
C8_OutOfBoundsReported ==
    event.op \in {"run", "export"} =>
        /\ event.cause = "MaskSizeMismatch" => event.outcome = "failure"
        /\ \A i \in DOMAIN event.result.pastes : InCanvas(event.result.pastes[i])

\* C9 (as stated; fails on the code): run and export on a store that holds a
\* region of width or height 0 never end in an unhandled division by zero.
C9_ZeroAreaHandled ==
    (/\ event.op \in {"run", "export"}
     /\ \E i \in DOMAIN rects : rects[i].w = 0 \/ rects[i].h = 0) =>
        ~(event.outcome = "crash" /\ event.cause = "ZeroDivisionError")

\* C10 (as stated; fails on the code): for a region W x H and a pattern
\* PW x PH of positive sizes, new_w <= W, new_h <= H, and new_w = W or
\* new_h = H.
C10_TightContainFit ==
    probe.kind = "fit_out" =>
        /\ probe.new_w <= probe.w
        /\ probe.new_h <= probe.h
        /\ (probe.new_w = probe.w \/ probe.new_h = probe.h)

\* C11 (as stated; fails on the code): the paste rectangle (x1, y1),
\* new_w x new_h has the same centre as the region, for every parity of W, H,
\* new_w and new_h; the region (100, 100, 50, 50) with the 50 x 25 resized
\* pattern is pasted at (100 - 25, 100 - 12).  The centres are compared
\* doubled (2 * x + W against 2 * x1 + new_w), and may differ by the half
\* pixel that an odd W - new_w forces.
C11_PasteCentred ==
    probe.kind = "paste_out" =>
        LET dx == (2 * probe.x1 + probe.new_w) - (2 * probe.rect.x + probe.rect.w)
            dy == (2 * probe.y1 + probe.new_h) - (2 * probe.rect.y + probe.rect.h)
        IN  /\ dx \in {0 - 1, 0, 1}
            /\ dy \in {0 - 1, 0, 1}
            /\ probe.x2 - probe.x1 = probe.new_w
            /\ probe.y2 - probe.y1 = probe.new_h
            /\ (probe.rect = ScenarioRect =>
                   probe.x1 = 100 - 25 /\ probe.y1 = 100 - 12)

\* C12: the region list changes its length in two ways only: a mouse release
\* with a rectangle of width and height at least 1 appends that rectangle,
\* and opening a base image empties the list.  A rejected release, a
\* cancelled open dialog, adding patterns, run and export leave the list as
\* it is, and a field update keeps its length.
C12_RegionCountChanges ==
    [][ /\ event'.op = "release" =>
              /\ Len(rects') = Len(rects) + 1
              /\ SubSeq(rects', 1, Len(rects)) = rects
              /\ rects'[Len(rects')].w >= 1
              /\ rects'[Len(rects')].h >= 1
        /\ event'.op = "open" => rects' = <<>>
        /\ event'.op = "update" => Len(rects') = Len(rects)
        /\ event'.op \notin {"release", "open", "update"} => rects' = rects
        /\ event'.op \in {"release", "open", "update", "release_rejected",
                          "open_cancel", "upload_patterns", "run", "export",
                          "deferred_delete"}
      ]_vars

\* the list grew to two regions, was emptied by an open and grew again
C12_Witness ==
    /\ event.op = "release"
    /\ Len(rects) = 1
    /\ issued = {0, 1}

\* a zero-area selection was rejected with a region in the list
C12_RejectedReached ==
    /\ event.op = "release_rejected"
    /\ Len(rects) = 1

\* C13: an export that succeeds returns the pixels of the base image file
\* with one paste per region of the list, in order, of the pattern chosen for
\* it, and nothing else: no overlay and no paste of an earlier run or export.
\* After a run or an export with the same choices it returns the same array.
C13_ExportRepeatable ==
    [][ (event'.op = "export" /\ event'.outcome = "ok") =>
          /\ event'.result.src = image_file'
          /\ event'.result.marks = <<>>
          /\ Len(event'.result.pastes) = Len(rects')
          /\ \A i \in DOMAIN rects' :
                event'.result.pastes[i].file = pattern_files'[event'.choice[i]]
          /\ (/\ event.op \in {"run", "export"}
              /\ event.outcome = "ok"
              /\ event.choice = event'.choice) => event'.result = event.result
      ]_vars

\* an export wrote the array that a run had put on display, while the
\* preview buffer holds overlays
C13_Witness ==
    /\ event.op = "export"
    /\ event.outcome = "ok"
    /\ event.result.pastes # <<>>
    /\ pixmap = event.result
    /\ image_copy.marks # <<>>

\* C14 (as stated; fails on the code): in every reachable state the Run and
\* Export buttons are active only if the region list is not empty.
C14_ButtonsNeedRegions ==
    (run_active \/ export_active) => rects # <<>>

====
